---- MODULE Spec2Model ----
(***************************************************************************)
(* Model of the saisonxform file-processing and archival pipeline:         *)
(* the `run` command of cli.py and the month/archival helpers of           *)
(* month_utils.py, over an abstract file system (Input/, Output/,          *)
(* Reference/NameList.csv, Archive/<month>/, Archive/.retry_<month>.json). *)
(*                                                                         *)
(* File names and month keys are sequences of one-character strings, so    *)
(* that the prefix parsing of get_month_from_filename is computed, not     *)
(* assumed.                                                                *)
(*                                                                         *)
(* Spec follows run; SpecArchive, SpecSample, SpecEstimate, SpecMonths and *)
(* SpecCsv call archive_file, sample_attendee_ids, estimate_attendee_count,*)
(* the month helpers and the CSV reader and writer of io.py directly.      *)
(***************************************************************************)
EXTENDS Integers, Sequences, FiniteSets, TLC

VARIABLES
    input,          \* names of the files present in Input/
    kind,           \* content of each input file: "ok", "empty" or "undecodable"
    outputWritable, \* Output/ can be written to
    namelist,       \* Reference/NameList.csv exists
    output,         \* paths present in Output/: [stem, ext, n] (n = 1: no suffix, n >= 2: "_n");
                    \* under SpecCsv a function from these paths to the files at them
    archiveRoot,    \* Archive/ exists
    archiveDirs,    \* names of the sub-directories of Archive/
    archived,       \* files under Archive/<month>/: path [month, name, ts] -> content (ts = 0: original name)
    markers,        \* month -> content of Archive/.retry_<month>.json
    clock,          \* datetime.now(), in seconds
    phase,          \* position of run: "idle" (not running) or "loop" (in the per-file loop)
    runs,           \* number of invocations of run so far
    force,          \* --force of the current/last invocation
    csv_files,      \* the files selected for processing, in processing order
    idx,            \* position of the loop in csv_files
    month_results,  \* month -> [succeeded, failed] of the current/last invocation
    processed_count,
    error_count,
    result,         \* how the last invocation ended
    exitCode,       \* its exit status
    startFs,        \* history: the file system when the current/last invocation started
    attempted,      \* history: the files whose loop body ran, in order
    outcomes,       \* history: what the loop body did to each of them
    readLog,        \* history: the input files read by the current/last invocation
    prevResult,     \* history: how the invocation before the current/last one ended
    lastTouch,      \* history: month -> what the latest completed run that touched it did
    call            \* history: the last direct call of a helper function, its arguments and result

vars == <<input, kind, outputWritable, namelist, output, archiveRoot, archiveDirs, archived, markers,
          clock, phase, runs, force, csv_files, idx, month_results,
          processed_count, error_count, result, exitCode, startFs, attempted, outcomes,
          readLog, prevResult, lastTouch, call>>

---------------------------------------------------------------------------
(* Bounds of the model *)

MaxRuns == 2

---------------------------------------------------------------------------
(* Names *)

Digits == {"0", "1", "2", "3", "4", "5", "6", "7", "8", "9"}

DigitVal(c) ==
    CASE c = "0" -> 0 [] c = "1" -> 1 [] c = "2" -> 2 [] c = "3" -> 3 [] c = "4" -> 4
      [] c = "5" -> 5 [] c = "6" -> 6 [] c = "7" -> 7 [] c = "8" -> 8 [] c = "9" -> 9

\* int("dddd")
RECURSIVE ToInt(_)
ToInt(s) == IF s = <<>> THEN 0 ELSE 10 * ToInt(SubSeq(s, 1, Len(s) - 1)) + DigitVal(s[Len(s)])

None == <<>>

YearMin == 1900
YearMax == 2100
MonthMin == 1
MonthMax == 12
PrefixLen == 6

\* 1900 <= year <= 2100 and 1 <= month <= 12, on a string of six digits
ValidYearMonth(ms) ==
    LET year == ToInt(SubSeq(ms, 1, 4))
        mon  == ToInt(SubSeq(ms, 5, 6))
    IN  YearMin <= year /\ year <= YearMax /\ MonthMin <= mon /\ mon <= MonthMax

\* a prefix test without the range validation of the month
get_month_from_filename_AnyMonth(fn) ==
    IF /\ Len(fn) >= PrefixLen + 1
       /\ \A i \in 1..PrefixLen : fn[i] \in Digits
       /\ fn[PrefixLen + 1] = "_"
    THEN LET month_str == SubSeq(fn, 1, PrefixLen)
         IN  IF YearMin <= ToInt(SubSeq(month_str, 1, 4)) /\ ToInt(SubSeq(month_str, 1, 4)) <= YearMax
             THEN month_str ELSE None
    ELSE None

\* re.match(r"^(\d{6})_", filename), then the range validation
get_month_from_filename(fn) ==
    IF /\ Len(fn) >= PrefixLen + 1
       /\ \A i \in 1..PrefixLen : fn[i] \in Digits
       /\ fn[PrefixLen + 1] = "_"
    THEN LET month_str == SubSeq(fn, 1, PrefixLen)
         IN  IF ValidYearMonth(month_str) THEN month_str ELSE None
    ELSE None

\* Path.stem: the model writes every file name without its ".csv"
Stem(fn) == fn

M10 == <<"2", "0", "2", "5", "1", "0">>
M11 == <<"2", "0", "2", "5", "1", "1">>

\* 202510_a.csv, 202510_b.csv, 202511_a.csv, note.csv
F10a == M10 \o <<"_", "a">>
F10b == M10 \o <<"_", "b">>
F11a == M11 \o <<"_", "a">>
Fnote == <<"n", "o", "t", "e">>

FileNames == {F10a, F10b, F11a, Fnote}
MonthKeys == {M10, M11}

\* the names a sub-directory of Archive/ has in the model
DirNames == MonthKeys

\* the decimal digits of n, on w characters
DigitChar == <<"0", "1", "2", "3", "4", "5", "6", "7", "8", "9">>

RECURSIVE DigitsOf(_, _)
DigitsOf(n, w) == IF w = 0 THEN <<>> ELSE Append(DigitsOf(n \div 10, w - 1), DigitChar[(n % 10) + 1])

\* the names the month helpers are called with directly: every year and month on
\* and next to the limits of the range, in each shape of prefix
ProbeYears == {1899, 1900, 2025, 2100, 2101}
ProbeMonths == {0, 1, 12, 13}
ProbePrefixes == {DigitsOf(y, 4) \o DigitsOf(m, 2) : y \in ProbeYears, m \in ProbeMonths}

\* <p>_a, <p>a, <p>, x<p>_a, <five digits of p>_a, <p>1_a
Shapes(p) ==
    {p \o <<"_", "a">>, p \o <<"a">>, p, <<"x">> \o p \o <<"_", "a">>,
     SubSeq(p, 1, 5) \o <<"_", "a">>, p \o <<"1", "_", "a">>}

ProbeNames == UNION {Shapes(p) : p \in ProbePrefixes} \cup {<<>>, <<"_">>}

\* 202509_a.csv and 202513_a.csv, listed with the files of the model by the helpers
M09 == <<"2", "0", "2", "5", "0", "9">>
M13 == <<"2", "0", "2", "5", "1", "3">>
F09a == M09 \o <<"_", "a">>
F13a == M13 \o <<"_", "a">>
ListedNames == FileNames \cup {F09a, F13a}

\* the entries of Archive/ the model of get_archived_months is called with:
\* 189912, 20251, 2025101, "202510\n", backup, and the keys above
Y1899 == <<"1", "8", "9", "9", "1", "2">>
ProbeDirNames ==
    {M09, M10, M11, M13, Y1899, SubSeq(M10, 1, 5), M10 \o <<"1">>, M10 \o <<"\n">>,
     <<"b", "a", "c", "k", "u", "p">>}

\* get_month_from_filename and the directory-name test of get_archived_months,
\* tabulated over the names of the model
file_month_of == [f \in FileNames \cup ListedNames \cup ProbeNames |-> get_month_from_filename(f)]
Kinds == {"ok", "empty", "undecodable"}

\* the contents each file of the model is tried with
KindsOf(f) ==
    IF f = F10a THEN {"ok", "undecodable"}
    ELSE IF f = F11a THEN {"ok", "empty"}
    ELSE {"ok"}

---------------------------------------------------------------------------
(* Helpers on sequences and sets *)

Range(s) == {s[i] : i \in 1..Len(s)}

RECURSIVE Reverse(_)
Reverse(s) == IF s = <<>> THEN <<>> ELSE Append(Reverse(Tail(s)), Head(s))

RECURSIVE Restrict(_, _)
Restrict(s, S) ==
    IF s = <<>> THEN <<>>
    ELSE IF Head(s) \in S THEN <<Head(s)>> \o Restrict(Tail(s), S)
    ELSE Restrict(Tail(s), S)

\* the file names of the model, in lexicographic order
NameOrder == <<F10a, F10b, F11a, Fnote>>

\* list(input_dir.glob("*.csv")): the directory order is not specified; the model
\* tries the ascending and the descending one
Listings(S) == {Restrict(NameOrder, S), Reverse(Restrict(NameOrder, S))}

\* the order of the month keys: fixed-width digit strings compare as their numbers
key_value == [k \in MonthKeys \cup {M09} |-> ToInt(k)]

MaxKey(S) == CHOOSE m \in S : \A k \in S : key_value[k] <= key_value[m]

\* sorted(months, reverse=True): the keys are fixed-width digit strings
RECURSIVE SortedReverse(_)
SortedReverse(S) == IF S = {} THEN <<>> ELSE <<MaxKey(S)>> \o SortedReverse(S \ {MaxKey(S)})

FirstN(s, n) == SubSeq(s, 1, IF Len(s) < n THEN Len(s) ELSE n)

---------------------------------------------------------------------------
(* month_utils.py *)

LatestN == 2

\* the first n keys in ascending order
get_latest_months_Ascending(files, n) ==
    LET months == {file_month_of[f] : f \in files} \ {None}
    IN  FirstN(Reverse(SortedReverse(months)), n)

get_latest_months(files, n) ==
    LET months == {file_month_of[f] : f \in files} \ {None}
    IN  FirstN(SortedReverse(months), n)

\* re.match(r"^\d{6}$", dir_name), then the range validation
\* ($ also matches before a newline that ends the name; the year and the month are
\* read from the first six characters)
IsMonthDirName(d) ==
    /\ \/ Len(d) = PrefixLen
       \/ Len(d) = PrefixLen + 1 /\ d[PrefixLen + 1] = "\n"
    /\ \A i \in 1..PrefixLen : d[i] \in Digits
    /\ ValidYearMonth(SubSeq(d, 1, PrefixLen))

is_month_dir == [d \in DirNames \cup ProbeDirNames |-> IsMonthDirName(d)]

\* the sub-directories of Archive/ whose name is a valid YYYYMM
get_archived_months(root, dirs) ==
    IF ~root THEN {} ELSE {d \in dirs : is_month_dir[d]}

has_retry_marker(root, mk, m) == IF ~root THEN FALSE ELSE m \in DOMAIN mk

\* a filter that lets the files without a month key through
RECURSIVE filter_files_by_months_KeepsUnkeyed(_, _)
filter_files_by_months_KeepsUnkeyed(files, months) ==
    IF months = <<>> THEN files
    ELSE IF files = <<>> THEN <<>>
    ELSE LET m == file_month_of[Head(files)]
             rest == filter_files_by_months_KeepsUnkeyed(Tail(files), months)
         IN  IF m = None \/ m \in Range(months) THEN <<Head(files)>> \o rest ELSE rest

RECURSIVE filter_files_by_months(_, _)
filter_files_by_months(files, months) ==
    IF months = <<>> THEN files
    ELSE IF files = <<>> THEN <<>>
    ELSE LET m == file_month_of[Head(files)]
             rest == filter_files_by_months(Tail(files), months)
         IN  IF m # None /\ m \in Range(months) THEN <<Head(files)>> \o rest ELSE rest

\* what the file system lets the three calls of archive_file do
ArchiveEnvs == [move : {"ok", "fail"}, copy : {"ok", "fail"}, unlink : {"ok", "fail"}]

\* the files under Archive/ after body was written to path p (an existing file is replaced)
WriteAt(arch, p, body) ==
    [q \in DOMAIN arch \cup {p} |-> IF q = p THEN body ELSE arch[q]]

\* a destination that carries the timestamp whether the name is taken or not
dest_path_AlwaysStamped(arch, now, fn, m) == [month |-> m, name |-> fn, ts |-> now]

\* dest_path: Archive/<month>/<name>, or <stem>_<%Y%m%d_%H%M%S><suffix> when that
\* name is taken; now is the time of the call in whole seconds
dest_path(arch, now, fn, m) ==
    LET plain == [month |-> m, name |-> fn, ts |-> 0]
    IN  IF plain \in DOMAIN arch THEN [plain EXCEPT !.ts = now] ELSE plain

\* a transfer that gives up when the move fails
Transfer_NoFallback(made, fn, body, env) ==
    IF env.move = "ok"
    THEN [made EXCEPT !.input = @ \ {fn}, !.archived = WriteAt(@, made.dest, body)]
    ELSE [made EXCEPT !.raised = "OSError"]

\* a transfer whose fallback removes the source before it copies
Transfer_UnlinkFirst(made, fn, body, env) ==
    IF env.move = "ok"
    THEN [made EXCEPT !.input = @ \ {fn}, !.archived = WriteAt(@, made.dest, body)]
    ELSE IF env.unlink = "fail"
    THEN [made EXCEPT !.raised = "OSError"]
    ELSE IF env.copy = "fail"
    THEN [made EXCEPT !.input = @ \ {fn}, !.raised = "OSError"]
    ELSE [made EXCEPT !.input = @ \ {fn}, !.archived = WriteAt(@, made.dest, body)]

\* shutil.move, then on OSError shutil.copy2 and unlink; any failure of the two is
\* re-raised as OSError, a failed unlink leaving the copy behind
Transfer(made, fn, body, env) ==
    IF env.move = "ok"
    THEN [made EXCEPT !.input = @ \ {fn}, !.archived = WriteAt(@, made.dest, body)]
    ELSE IF env.copy = "fail"
    THEN [made EXCEPT !.raised = "OSError"]
    ELSE IF env.unlink = "fail"
    THEN [made EXCEPT !.archived = WriteAt(@, made.dest, body), !.raised = "OSError"]
    ELSE [made EXCEPT !.input = @ \ {fn}, !.archived = WriteAt(@, made.dest, body)]

\* archive_file(file_path, archive_dir, month), body being the content of the
\* source: the new source directory and Archive/, the destination, and the
\* exception raised ("none" when it returns)
archive_file(inp, root, dirs, arch, now, fn, body, m, env) ==
    IF fn \notin inp
    THEN [input |-> inp, archiveRoot |-> root, archiveDirs |-> dirs, archived |-> arch,
          dest |-> None, raised |-> "FileNotFoundError"]
    ELSE Transfer([input |-> inp, archiveRoot |-> TRUE, archiveDirs |-> dirs \cup {m},
                   archived |-> arch, dest |-> dest_path(arch, now, fn, m),
                   raised |-> "none"],
                  fn, body, env)

\* the JSON written to Archive/.retry_<month>.json
RetryData(m, failed_files, errors, now) ==
    [month |-> m, failed_files |-> failed_files, errors |-> errors, timestamp |-> now]

\* a marker that is never written
create_retry_marker_Skipped(mk, m, failed_files, errors, now) == mk

\* a marker that is appended to the one already there
create_retry_marker_Merging(mk, m, failed_files, errors, now) ==
    [k \in DOMAIN mk \cup {m} |->
        IF k = m
        THEN IF m \in DOMAIN mk
             THEN RetryData(m, mk[m].failed_files \o failed_files, mk[m].errors \o errors, now)
             ELSE RetryData(m, failed_files, errors, now)
        ELSE mk[k]]

\* a marker whose writing clears the markers of the other months
create_retry_marker_Clobber(mk, m, failed_files, errors, now) ==
    [k \in {m} |-> RetryData(m, failed_files, errors, now)]

\* create_retry_marker: open(..., "w") replaces whatever the file held
create_retry_marker(mk, m, failed_files, errors, now) ==
    [k \in DOMAIN mk \cup {m} |->
        IF k = m THEN RetryData(m, failed_files, errors, now) ELSE mk[k]]

\* delete_retry_marker: unlink if it exists
delete_retry_marker(mk, m) == [k \in DOMAIN mk \ {m} |-> mk[k]]

---------------------------------------------------------------------------
(* io.py and reporting.py, as run uses them *)

\* a probe that only ever tries name_2
FirstFree_OnlyTwo(out, st, ext) ==
    IF [stem |-> st, ext |-> ext, n |-> 1] \notin out THEN 1 ELSE 2

\* handle_duplicates: the given path if free, else the first free name_2, name_3, ...
FirstFree(out, st, ext) ==
    IF [stem |-> st, ext |-> ext, n |-> 1] \notin out THEN 1
    ELSE CHOOSE c \in 2..(Cardinality(out) + 2) :
            /\ [stem |-> st, ext |-> ext, n |-> c] \notin out
            /\ \A d \in 2..(c - 1) : [stem |-> st, ext |-> ext, n |-> d] \in out

OutPath(out, st, ext) == [stem |-> st, ext |-> ext, n |-> FirstFree(out, st, ext)]

\* the parameters generate_html_report declares
ReportParams ==
    {"transactions", "attendee_reference", "output_path", "source_filename",
     "template_dir", "handle_duplicates"}

\* the keyword arguments run passes to generate_html_report
ReportCallKwargs ==
    {"transactions", "attendee_reference", "output_path", "source_filename",
     "pre_header_rows", "handle_duplicates"}

\* a call with a keyword the function does not declare raises TypeError
ReportCallBinds == ReportCallKwargs \subseteq ReportParams

---------------------------------------------------------------------------
(* cli.py: run *)

NoResults == <<>>

EmptyEntry == [succeeded |-> <<>>, failed |-> <<>>]

\* month_results[m]["succeeded"].append(name)
TrackSucceeded(mr, m, name) ==
    [k \in DOMAIN mr \cup {m} |->
        IF k = m
        THEN LET e == IF m \in DOMAIN mr THEN mr[m] ELSE EmptyEntry
             IN  [e EXCEPT !.succeeded = Append(@, name)]
        ELSE mr[k]]

\* month_results[m]["failed"].append((name, str(error)))
TrackFailed(mr, m, name, err) ==
    [k \in DOMAIN mr \cup {m} |->
        IF k = m
        THEN LET e == IF m \in DOMAIN mr THEN mr[m] ELSE EmptyEntry
             IN  [e EXCEPT !.failed = Append(@, <<name, err>>)]
        ELSE mr[k]]

months_in_files(files) == {file_month_of[f] : f \in Range(files)} \ {None}

\* the already-archived months of the selected files that carry no retry marker
months_without_retry(root, dirs, mk, files) ==
    LET already_archived == months_in_files(files) \cap get_archived_months(root, dirs)
        months_with_retry == {m \in already_archived : has_retry_marker(root, mk, m)}
    IN  already_archived \ months_with_retry

\* a guard that rejects only when none of the archived months has a marker
GuardRejects_NoneMarked(frc, root, dirs, mk, files) ==
    LET already_archived == months_in_files(files) \cap get_archived_months(root, dirs)
    IN  /\ ~frc
        /\ already_archived # {}
        /\ \A m \in already_archived : ~has_retry_marker(root, mk, m)

\* a guard that does not look at --force
GuardRejects_IgnoresForce(frc, root, dirs, mk, files) ==
    months_without_retry(root, dirs, mk, files) # {}

\* the already-archived month detection: TRUE when run exits with the conflict
GuardRejects(frc, root, dirs, mk, files) ==
    IF ~frc THEN months_without_retry(root, dirs, mk, files) # {} ELSE FALSE

\* csv_files: the listing filtered by --month, or by the latest two months
SelectFiles(listing, mon) ==
    LET months_to_process ==
            IF mon # <<>> THEN mon ELSE get_latest_months(Range(listing), LatestN)
    IN  IF months_to_process # <<>>
        THEN filter_files_by_months(listing, months_to_process)
        ELSE listing

\* how an invocation ends before the loop, or "loop" when it enters the loop
Precheck(hasNameList, listing, mon, frc, root, dirs, mk) ==
    IF ~hasNameList THEN "NameListMissing"
    ELSE IF listing = <<>> THEN "NoCsvFiles"
    ELSE LET sel == SelectFiles(listing, mon)
         IN  IF sel = <<>> THEN "NoMatchingFiles"
             ELSE IF GuardRejects(frc, root, dirs, mk, sel) THEN "AlreadyArchivedConflict"
             ELSE "loop"

\* the conflict is reported without raising typer.Exit
PhaseAfter_NoExit(r) == IF r \in {"loop", "AlreadyArchivedConflict"} THEN "loop" ELSE "idle"

\* raise typer.Exit(...) ends the invocation; otherwise it goes on into the loop
PhaseAfter(r) == IF r = "loop" THEN "loop" ELSE "idle"

PrecheckExit(r) ==
    IF r \in {"NameListMissing", "AlreadyArchivedConflict"} THEN 1 ELSE 0

Snapshot ==
    [input |-> input, output |-> output, archiveRoot |-> archiveRoot,
     archiveDirs |-> archiveDirs, archived |-> archived, markers |-> markers]

MonthArgs == {<<>>, <<M10>>, <<M11>>, <<M10, M11>>}

\* run(month=mon, force=frc), the data directories lying outside any git work tree
StartRun(frc, mon, listing) ==
    /\ phase = "idle"
    /\ runs < MaxRuns
    /\ LET r == Precheck(namelist, listing, mon, frc, archiveRoot, archiveDirs, markers)
       IN  /\ phase' = PhaseAfter(r)
           /\ result' = IF r = "loop" THEN "running" ELSE r
           /\ exitCode' = IF r = "loop" THEN -1 ELSE PrecheckExit(r)
           /\ csv_files' = IF r \in {"NameListMissing", "NoCsvFiles"}
                           THEN <<>>
                           ELSE SelectFiles(listing, mon)
    /\ runs' = runs + 1
    /\ force' = frc
    /\ idx' = 1
    /\ month_results' = NoResults
    /\ processed_count' = 0
    /\ error_count' = 0
    /\ startFs' = Snapshot
    /\ attempted' = <<>>
    /\ outcomes' = <<>>
    /\ readLog' = {}
    /\ prevResult' = result
    /\ UNCHANGED <<lastTouch, call>>
    /\ UNCHANGED <<input, kind, outputWritable, namelist, output, archiveRoot, archiveDirs,
                   archived, markers, clock>>

\* what the file system lets one pass of the loop body do
LoopEnvs == [html : {"ok", "fail"}, arch : ArchiveEnvs]

\* the state the loop body works on
LoopState ==
    [input |-> input, output |-> output, archiveRoot |-> archiveRoot,
     archiveDirs |-> archiveDirs, archived |-> archived,
     month_results |-> month_results, processed_count |-> processed_count,
     error_count |-> error_count]

\* the error is tracked for the month of the first selected file
OnError_StaleMonth(st, fn, err) ==
    LET file_month == file_month_of[csv_files[1]]
    IN  [st EXCEPT !.error_count = @ + 1,
                   !.month_results = IF file_month # None
                                     THEN TrackFailed(@, file_month, fn, err)
                                     ELSE @]

\* the error is tracked whether the file has a month or not
OnError_TracksAll(st, fn, err) ==
    [st EXCEPT !.error_count = @ + 1,
               !.month_results = TrackFailed(@, file_month_of[fn], fn, err)]

\* except Exception as e: count the error, track it for the file's month
OnError(st, fn, err) ==
    LET file_month == file_month_of[fn]
    IN  [st EXCEPT !.error_count = @ + 1,
                   !.month_results = IF file_month # None
                                     THEN TrackFailed(@, file_month, fn, err)
                                     ELSE @]

\* the archive step of the loop body, reached after both outputs were written
ArchiveStep(st, fn, env) ==
    LET file_month == file_month_of[fn]
        a == archive_file(st.input, st.archiveRoot, st.archiveDirs, st.archived,
                          clock, fn, kind[fn], file_month, env.arch)
        moved == [st EXCEPT !.input = a.input, !.archiveRoot = a.archiveRoot,
                            !.archiveDirs = a.archiveDirs, !.archived = a.archived]
    IN  IF file_month = None
        THEN [st EXCEPT !.processed_count = @ + 1]
        ELSE IF a.raised = "none"
        THEN [moved EXCEPT !.month_results = TrackSucceeded(@, file_month, fn),
                           !.processed_count = @ + 1]
        ELSE [moved EXCEPT !.month_results = TrackFailed(@, file_month, fn, a.raised),
                           !.processed_count = @ + 1]

\* the report step: generate_html_report(..., pre_header_rows=..., handle_duplicates=True)
ReportStep(st, fn, env) ==
    IF ~ReportCallBinds THEN OnError(st, fn, "TypeError")
    ELSE IF env.html = "fail" THEN OnError(st, fn, "ReportError")
    ELSE ArchiveStep([st EXCEPT !.output = @ \cup {OutPath(@, Stem(fn), "html")}], fn, env)

\* an empty file counted as a read error
LoopBody_EmptyIsError(st, fn, k, env) ==
    IF k \in {"undecodable", "empty"} THEN OnError(st, fn, "ValueError")
    ELSE IF ~outputWritable THEN OnError(st, fn, "PermissionError")
    ELSE ReportStep([st EXCEPT !.output = @ \cup {OutPath(@, Stem(fn), "csv")}], fn, env)

\* one pass of the body of `for csv_file in csv_files`
LoopBody(st, fn, k, env) ==
    IF k = "undecodable" THEN OnError(st, fn, "ValueError")
    ELSE IF k = "empty" THEN st
    ELSE IF ~outputWritable THEN OnError(st, fn, "PermissionError")
    ELSE ReportStep([st EXCEPT !.output = @ \cup {OutPath(@, Stem(fn), "csv")}], fn, env)

\* the body asks the file system about the report and the archive only when it
\* gets as far as calling generate_html_report with arguments that bind
ReachesReport(fn, k) == k = "ok" /\ outputWritable /\ ReportCallBinds

QuietEnv == [html |-> "ok", arch |-> [move |-> "ok", copy |-> "ok", unlink |-> "ok"]]

EnvsAt(fn, k) == IF ReachesReport(fn, k) THEN LoopEnvs ELSE {QuietEnv}

\* a loop that stops at the first error
NextIdx_Break(i, before, after) ==
    IF after.error_count > before.error_count THEN Len(csv_files) + 1 ELSE i + 1

\* the position of the loop after the body ran for csv_files[i]
NextIdx(i, before, after) == i + 1

\* history: what one pass of the body did, read off the counters and the file system
Outcome(before, after, fn) ==
    IF after.error_count > before.error_count THEN "error"
    ELSE IF after.processed_count = before.processed_count THEN "skipped"
    ELSE IF fn \notin after.input THEN "archived"
    ELSE IF file_month_of[fn] # None THEN "archive_failed"
    ELSE "processed"

ProcessFile(env) ==
    /\ phase = "loop"
    /\ idx <= Len(csv_files)
    /\ env \in EnvsAt(csv_files[idx], kind[csv_files[idx]])
    /\ LET fn == csv_files[idx]
           st == LoopBody(LoopState, fn, kind[fn], env)
       IN  /\ input' = st.input
           /\ output' = st.output
           /\ archiveRoot' = st.archiveRoot
           /\ archiveDirs' = st.archiveDirs
           /\ archived' = st.archived
           /\ month_results' = st.month_results
           /\ processed_count' = st.processed_count
           /\ error_count' = st.error_count
           /\ idx' = NextIdx(idx, LoopState, st)
           /\ attempted' = Append(attempted, fn)
           /\ outcomes' = Append(outcomes, Outcome(LoopState, st, fn))
           /\ readLog' = readLog \cup {fn}
    /\ UNCHANGED <<kind, outputWritable, namelist, markers, clock, phase, runs, force, csv_files,
                   result, exitCode, startFs, prevResult, lastTouch, call>>

\* markers only for the failed months that already have an Archive/<month>/ directory
MonthsToMark_ArchivedOnly(mr) ==
    {m \in DOMAIN mr : mr[m].failed # <<>> /\ m \in archiveDirs}

\* the months whose marker the end of the run writes, and those whose marker it deletes
MonthsToMark(mr) == {m \in DOMAIN mr : mr[m].failed # <<>>}
MonthsToClear(mr) == {m \in DOMAIN mr : mr[m].failed = <<>> /\ mr[m].succeeded # <<>>}

Firsts(pairs) == [i \in 1..Len(pairs) |-> pairs[i][1]]
Seconds(pairs) == [i \in 1..Len(pairs) |-> pairs[i][2]]

\* for month_str, results in month_results.items(): create or delete the marker
RECURSIVE HandleMarkers(_, _, _, _)
HandleMarkers(mk, mr, todo, now) ==
    IF todo = {} THEN mk
    ELSE LET m == CHOOSE x \in todo : TRUE
             nxt == IF m \in MonthsToMark(mr)
                    THEN create_retry_marker(mk, m, Firsts(mr[m].failed),
                                             Seconds(mr[m].failed), now)
                    ELSE IF m \in MonthsToClear(mr)
                    THEN delete_retry_marker(mk, m)
                    ELSE mk
         IN  HandleMarkers(nxt, mr, todo \ {m}, now)

\* history: the months this run touched, and whether a file of theirs failed
FailedNow(m) ==
    \E i \in 1..Len(attempted) :
        file_month_of[attempted[i]] = m /\ outcomes[i] \in {"error", "archive_failed"}

ArchivedNow(m) ==
    \E i \in 1..Len(attempted) : file_month_of[attempted[i]] = m /\ outcomes[i] = "archived"

FinishRun ==
    /\ phase = "loop"
    /\ idx > Len(csv_files)
    /\ markers' = HandleMarkers(markers, month_results, DOMAIN month_results, runs)
    /\ archiveRoot' = (archiveRoot \/ MonthsToMark(month_results) # {})
    /\ phase' = "idle"
    /\ result' = "Complete"
    /\ exitCode' = IF error_count > 0 THEN 1 ELSE 0
    /\ lastTouch' = [m \in MonthKeys |->
                        IF FailedNow(m) THEN "failed"
                        ELSE IF ArchivedNow(m) THEN "succeeded"
                        ELSE lastTouch[m]]
    /\ UNCHANGED <<input, kind, outputWritable, namelist, output, archiveDirs, archived, clock, runs,
                   force, csv_files, idx, month_results, processed_count,
                   error_count, startFs, attempted, outcomes, readLog, prevResult, call>>

---------------------------------------------------------------------------
(* The file systems an invocation can find *)

\* no helper function was called directly
NoCall == [op |-> "none"]

\* a marker left by an earlier invocation
OldMarker(m) == RetryData(m, <<m \o <<"_", "a">>>>, <<"old">>, 0)

\* the contents of Input/ the model starts from
InputSets == {{}, {Fnote}, {F10a, F10b}, {F10a, F11a}, {F10a, F10b, F11a}, {F10b, F11a, Fnote}}

Init ==
    /\ input \in InputSets
    /\ kind \in [FileNames -> Kinds]
    /\ \A f \in FileNames : kind[f] \in KindsOf(f)
    /\ \A f \in FileNames \ input : kind[f] = "ok"
    /\ outputWritable \in BOOLEAN
    /\ namelist \in BOOLEAN
    /\ output = {}
    /\ archiveDirs \in SUBSET MonthKeys
    /\ archived = <<>>
    /\ \E ms \in SUBSET MonthKeys : markers = [m \in ms |-> OldMarker(m)]
    /\ archiveRoot \in BOOLEAN
    /\ (archiveDirs # {} \/ DOMAIN markers # {}) => archiveRoot
    /\ clock = 1
    /\ phase = "idle"
    /\ runs = 0
    /\ force = FALSE
    /\ csv_files = <<>>
    /\ idx = 1
    /\ month_results = NoResults
    /\ processed_count = 0
    /\ error_count = 0
    /\ result = "none"
    /\ exitCode = -1
    /\ startFs = Snapshot
    /\ attempted = <<>>
    /\ outcomes = <<>>
    /\ readLog = {}
    /\ prevResult = "none"
    /\ lastTouch = [m \in MonthKeys |-> "never"]
    /\ call = NoCall

Next ==
    \/ \E frc \in BOOLEAN, mon \in MonthArgs, listing \in Listings(input) :
          StartRun(frc, mon, listing)
    \/ \E env \in LoopEnvs : ProcessFile(env)
    \/ FinishRun

Spec == Init /\ [][Next]_vars

---------------------------------------------------------------------------
(* Properties of run *)

\* the months of the files selected by the current/last invocation
SelectedMonths == {file_month_of[f] : f \in Range(csv_files)} \ {None}

\* Archive/<m>/ existed, without a retry marker, when the invocation started
ArchivedCleanAtStart(m) == m \in startFs.archiveDirs /\ m \notin DOMAIN startFs.markers

SameMarker(a, b, m) ==
    /\ m \in DOMAIN a <=> m \in DOMAIN b
    /\ (m \in DOMAIN a /\ m \in DOMAIN b) => a[m] = b[m]

\* no file of month m was recorded as succeeded or failed by the current/last invocation
Untouched(m) ==
    \/ m \notin DOMAIN month_results
    \/ month_results[m].succeeded = <<>> /\ month_results[m].failed = <<>>

\* C1: an invocation without --force whose selected files include a month that has
\* an Archive/<month>/ directory and no retry marker ends with
\* AlreadyArchivedConflict, exit status 1, and leaves the directories as they were,
\* so that the same invocation is rejected again
C1_GuardRejectsArchivedMonth ==
    (runs > 0 /\ ~force /\ \E m \in SelectedMonths : ArchivedCleanAtStart(m))
        => /\ result = "AlreadyArchivedConflict"
           /\ exitCode = 1
           /\ phase = "idle"
           /\ Snapshot = startFs

C1_Witness ==
    /\ runs = 2
    /\ prevResult = "AlreadyArchivedConflict"
    /\ result = "AlreadyArchivedConflict"
    /\ ~force

\* C2: when the run that just completed recorded a failed file for month M, the
\* next invocation, without --force and over files of M only, passes the guard
C2_RecoveryWithoutForce ==
    [][(/\ result = "Complete"
        /\ runs' = runs + 1
        /\ ~force'
        /\ csv_files' # <<>>
        /\ \E m \in DOMAIN month_results :
              /\ month_results[m].failed # <<>>
              /\ \A f \in Range(csv_files') : file_month_of[f] = m)
       => (result' = "running" /\ phase' = "loop")]_vars

C2_Witness ==
    /\ runs = 2
    /\ prevResult = "Complete"
    /\ result = "running"
    /\ ~force
    /\ \E m \in MonthKeys :
          /\ m \in startFs.archiveDirs
          /\ m \in DOMAIN startFs.markers
          /\ startFs.markers[m].timestamp = 1
          /\ \A f \in Range(csv_files) : file_month_of[f] = m

\* C3: when a run that passed the guard has ended, every month with a failed file
\* in this run has a marker holding exactly this run's failures (an earlier marker
\* is replaced), and every month with no failed and some succeeded file has none
C3_MarkerLifecycle ==
    result = "Complete" =>
        \A m \in DOMAIN month_results :
            /\ month_results[m].failed # <<>> =>
                  /\ m \in DOMAIN markers
                  /\ markers[m].month = m
                  /\ markers[m].failed_files = Firsts(month_results[m].failed)
                  /\ markers[m].errors = Seconds(month_results[m].failed)
                  /\ markers[m].timestamp = runs
            /\ (month_results[m].failed = <<>> /\ month_results[m].succeeded # <<>>) =>
                  m \notin DOMAIN markers

C3_Witness ==
    /\ result = "Complete"
    /\ \E m \in DOMAIN month_results :
          /\ month_results[m].failed # <<>>
          /\ m \in DOMAIN startFs.markers
          /\ m \in DOMAIN markers
          /\ markers[m].failed_files # startFs.markers[m].failed_files

\* C4: a marker of a month that some completed run touched exists only if the
\* latest such run had a failed file of that month; the marker of a month no run
\* touched is the one the runs found
C4_MarkerOnlyAfterFailure ==
    \A m \in MonthKeys :
        m \in DOMAIN markers =>
            IF lastTouch[m] = "never" THEN markers[m] = OldMarker(m)
            ELSE lastTouch[m] = "failed"

C4_Witness ==
    /\ runs = 2
    /\ result = "Complete"
    /\ \E m \in MonthKeys :
          /\ lastTouch[m] = "failed"
          /\ m \in DOMAIN markers
          /\ markers[m].timestamp = 1
    /\ \E m \in MonthKeys : m \in DOMAIN markers /\ markers[m].timestamp = 2

\* C5: an invocation that ends on a missing NameList.csv or on the conflict has
\* read no input file and has left Input/, Output/ and Archive/ (directories and
\* markers) as they were
C5_AbortTouchesNothing ==
    result \in {"NameListMissing", "AlreadyArchivedConflict"} =>
        /\ Snapshot = startFs
        /\ attempted = <<>>
        /\ readLog = {}

C5_Witness ==
    /\ result = "AlreadyArchivedConflict"
    /\ output # {}
    /\ DOMAIN markers # {}
    /\ input # {}

\* C6: with --force, or when every already-archived month of the selected files
\* has a marker, the guard lets the invocation into the loop, which then runs over
\* the selected files
C6_GuardLetsThrough ==
    (/\ runs > 0
     /\ csv_files # <<>>
     /\ \/ force
        \/ \A m \in SelectedMonths : ~ArchivedCleanAtStart(m))
        => /\ result \in {"running", "Complete"}
           /\ result = "running" => phase = "loop"
           /\ result = "Complete" => attempted = csv_files

C6_Witness ==
    /\ force
    /\ result = "Complete"
    /\ attempted = csv_files
    /\ \E m \in SelectedMonths : ArchivedCleanAtStart(m)

\* C7: a completed run leaves the marker of every month it did not touch as it
\* found it: absent if absent, with the same content if present
C7_UntouchedMarkersKept ==
    result = "Complete" =>
        \A m \in MonthKeys : Untouched(m) => SameMarker(markers, startFs.markers, m)

C7_Witness ==
    /\ result = "Complete"
    /\ markers # startFs.markers
    /\ \E m \in SelectedMonths : Untouched(m) /\ m \in DOMAIN markers

\* the files of month m that failed in the current/last invocation, in loop order
RECURSIVE FailedOf(_, _)
FailedOf(m, n) ==
    IF n = 0 THEN <<>>
    ELSE IF file_month_of[attempted[n]] = m /\ outcomes[n] \in {"error", "archive_failed"}
    THEN Append(FailedOf(m, n - 1), attempted[n])
    ELSE FailedOf(m, n - 1)

RecordedFailed(m) ==
    IF m \in DOMAIN month_results THEN Firsts(month_results[m].failed) ELSE <<>>

\* C8: the loop runs over every selected file in order whatever fails: while it
\* runs, the files attempted are the selected ones up to the loop position; when
\* the run has ended they are all of them; and each failure is recorded once, for
\* the failed file, under that file's month
C8_FailureDoesNotAbort ==
    /\ phase = "loop" => (idx <= Len(csv_files) + 1 /\ attempted = SubSeq(csv_files, 1, idx - 1))
    /\ result = "Complete" => attempted = csv_files
    /\ result \in {"running", "Complete"} =>
          \A m \in MonthKeys : RecordedFailed(m) = FailedOf(m, Len(attempted))

C8_Witness ==
    /\ result = "Complete"
    /\ Len(attempted) >= 2
    /\ outcomes[1] = "error"
    /\ outcomes[2] = "error"
    /\ file_month_of[attempted[1]] = file_month_of[attempted[2]]

\* C9: a file whose processing failed is still in Input/ and the run has left
\* no output and no archived copy of it
C9_FailureIsAtomic ==
    \A i \in 1..Len(attempted) :
        outcomes[i] \in {"error", "archive_failed"} =>
            /\ attempted[i] \in input
            /\ \A o \in output \ startFs.output : o.stem # Stem(attempted[i])
            /\ \A a \in DOMAIN archived \ DOMAIN startFs.archived : a.name # attempted[i]

\* the current/last invocation ran its loop to the end
RunComplete == phase = "idle" /\ result = "Complete"

\* every selected file is non-empty, decodable and carries a valid month prefix
AllSelectedGood ==
    /\ csv_files # <<>>
    /\ \A i \in 1..Len(csv_files) :
          kind[csv_files[i]] = "ok" /\ file_month_of[csv_files[i]] # None

\* C11: a run that passes the guard over non-empty, decodable files with a valid
\* month prefix, Output/ being writable, writes Output/<stem>.csv and
\* Output/<stem>.html for each, moves each out of Input/, counts each as
\* processed and exits with status 0
C11_SuccessPath ==
    (RunComplete /\ AllSelectedGood /\ outputWritable) =>
        /\ exitCode = 0
        /\ error_count = 0
        /\ processed_count = Len(csv_files)
        /\ \A i \in 1..Len(csv_files) :
              /\ csv_files[i] \notin input
              /\ \E o \in output \ startFs.output :
                    o.stem = Stem(csv_files[i]) /\ o.ext = "csv"
              /\ \E o \in output \ startFs.output :
                    o.stem = Stem(csv_files[i]) /\ o.ext = "html"

\* a month is unarchived, archived-clean or archived-with-retry: its marker, if
\* any, comes with its Archive/<month>/ directory
ThreeStates(dirs, mk) == \A m \in MonthKeys : m \in DOMAIN mk => m \in dirs

\* C12 as stated: a run that starts with every month in one of the three states
\* ends with every month in one of the three states (no marker without its
\* Archive/<month>/ directory)
C12_ThreeStatesKept ==
    (RunComplete /\ ThreeStates(startFs.archiveDirs, startFs.markers)) =>
        ThreeStates(archiveDirs, markers)

\* C12, amended: directory and marker are independent. Every month with a
\* failure in a completed run has a marker at its end whether or not
\* Archive/<month>/ exists; a marker without its directory is this run's record
\* of a failure or was there at the start for a month the run did not touch; no
\* run removes an Archive/<month>/ directory, and a marker implies Archive/
C12_MonthStates ==
    /\ DOMAIN markers # {} => archiveRoot
    /\ RunComplete =>
          /\ startFs.archiveDirs \subseteq archiveDirs
          /\ \A m \in MonthKeys :
                /\ FailedNow(m) => m \in DOMAIN markers
                /\ (m \in DOMAIN markers /\ m \notin archiveDirs) =>
                      \/ FailedNow(m)
                      \/ Untouched(m) /\ m \in DOMAIN startFs.markers

\* a run that found a month unarchived and without marker leaves it with a
\* marker and still without directory
C12_Witness ==
    /\ RunComplete
    /\ \E m \in MonthKeys :
          /\ m \notin startFs.archiveDirs /\ m \notin DOMAIN startFs.markers
          /\ FailedNow(m)
          /\ m \in DOMAIN markers /\ m \notin archiveDirs

---------------------------------------------------------------------------
(* archive_file called directly, as month_utils' callers and tests do *)

\* the variables of run, which no direct call of a helper touches
runVars == <<outputWritable, namelist, output, markers, phase, runs, force, csv_files, idx,
             month_results, processed_count, error_count, result, exitCode, startFs,
             attempted, outcomes, readLog, prevResult, lastTouch>>

\* no invocation of run has taken place
RunIdle ==
    /\ outputWritable = TRUE
    /\ namelist = TRUE
    /\ output = {}
    /\ markers = <<>>
    /\ phase = "idle"
    /\ runs = 0
    /\ force = FALSE
    /\ csv_files = <<>>
    /\ idx = 1
    /\ month_results = NoResults
    /\ processed_count = 0
    /\ error_count = 0
    /\ result = "none"
    /\ exitCode = -1
    /\ startFs = <<>>
    /\ attempted = <<>>
    /\ outcomes = <<>>
    /\ readLog = {}
    /\ prevResult = "none"
    /\ lastTouch = [m \in MonthKeys |-> "never"]

\* number of archive_file calls and seconds of clock the model follows
MaxCalls == 3
MaxClock == 2

\* the name of the source file; files of the same name are archived again and again
ArchNames == {F10a}

\* the directories archive_file reads and writes
ArchiveFs ==
    [input |-> input, archiveRoot |-> archiveRoot, archiveDirs |-> archiveDirs,
     archived |-> archived]

InitArchive ==
    /\ RunIdle
    /\ input \in SUBSET ArchNames
    /\ kind \in [FileNames -> Kinds]
    /\ \A f \in FileNames : kind[f] \in KindsOf(f)
    /\ \A f \in FileNames \ input : kind[f] = "ok"
    /\ archiveRoot \in BOOLEAN
    /\ archiveDirs \in {{}, {M10}}
    /\ archiveDirs # {} => archiveRoot
    /\ archived = <<>>
    /\ clock = 1
    /\ call = [op |-> "none", n |-> 0, clean |-> TRUE]

\* a file of that name is put into the source directory
PutFile(fn, k) ==
    /\ fn \notin input
    /\ k \in KindsOf(fn)
    /\ input' = input \cup {fn}
    /\ kind' = [kind EXCEPT ![fn] = k]
    /\ UNCHANGED <<archiveRoot, archiveDirs, archived, clock, call>>
    /\ UNCHANGED runVars

\* a second passes
Tick ==
    /\ clock < MaxClock
    /\ clock' = clock + 1
    /\ UNCHANGED <<input, kind, archiveRoot, archiveDirs, archived, call>>
    /\ UNCHANGED runVars

\* archive_file(source/fn, Archive, m)
ArchiveCall(fn, m, env) ==
    /\ call.n < MaxCalls
    /\ fn \notin input => env = QuietEnv.arch
    /\ LET a == archive_file(input, archiveRoot, archiveDirs, archived, clock, fn, kind[fn],
                             m, env)
       IN  /\ input' = a.input
           /\ archiveRoot' = a.archiveRoot
           /\ archiveDirs' = a.archiveDirs
           /\ archived' = a.archived
           /\ call' = [op |-> "archive_file", n |-> call.n + 1, fn |-> fn, month |-> m,
                       env |-> env, body |-> kind[fn], now |-> clock, pre |-> ArchiveFs,
                       post |-> [input |-> a.input, archiveRoot |-> a.archiveRoot,
                                 archiveDirs |-> a.archiveDirs, archived |-> a.archived],
                       dest |-> a.dest, raised |-> a.raised,
                       clean |-> (call.clean /\ a.raised = "none")]
    /\ UNCHANGED <<kind, clock>>
    /\ UNCHANGED runVars

NextArchive ==
    \/ \E fn \in ArchNames, k \in Kinds : PutFile(fn, k)
    \/ Tick
    \/ \E fn \in ArchNames, m \in MonthKeys, env \in ArchiveEnvs : ArchiveCall(fn, m, env)

SpecArchive == InitArchive /\ [][NextArchive]_vars

\* the last call was archive_file for a source that existed
Archiving == call.op = "archive_file" /\ call.fn \in call.pre.input

\* Archive/<month>/<original name> of the last call
PlainDest == [month |-> call.month, name |-> call.fn, ts |-> 0]

\* the source of the last call is gone and its content is at the returned path
Moved ==
    /\ call.fn \notin call.post.input
    /\ call.dest \in DOMAIN call.post.archived
    /\ call.post.archived[call.dest] = call.body

\* C13: when archive_file returns for a source whose name is not taken in
\* Archive/<month>/, by the move or by the copy-then-delete fallback, the source
\* is gone, the returned path is Archive/<month>/<original name> and holds the
\* source's content, and Archive/ and Archive/<month>/ exist
C13_ArchiveMovesSource ==
    (Archiving /\ call.raised = "none" /\ PlainDest \notin DOMAIN call.pre.archived) =>
        /\ Moved
        /\ call.dest = PlainDest
        /\ call.post.archiveRoot
        /\ call.month \in call.post.archiveDirs
        /\ call.pre.archiveDirs \subseteq call.post.archiveDirs

\* the fallback archived a file, creating Archive/ and Archive/<month>/
C13_Witness ==
    /\ Archiving /\ call.raised = "none"
    /\ PlainDest \notin DOMAIN call.pre.archived
    /\ call.env.move = "fail"
    /\ ~call.pre.archiveRoot
    /\ call.dest \in DOMAIN archived

\* C14: in a sequence of archive_file calls that all returned, every call has
\* returned a path no earlier call returned, and every file archived before
\* still exists with its own content
C14_CollisionNamesUnique ==
    (Archiving /\ call.clean) =>
        /\ call.dest \notin DOMAIN call.pre.archived
        /\ \A p \in DOMAIN call.pre.archived :
              p \in DOMAIN call.post.archived /\ call.post.archived[p] = call.pre.archived[p]

\* C15: for an existing source archive_file raises nothing but OSError, and raises
\* it exactly when the move failed and the copy-then-delete fallback failed too
\* (the copy or the removal of the source); when the move succeeds, or fails and
\* the fallback succeeds, it returns with the source archived
C15_MoveThenFallback ==
    Archiving =>
        /\ call.raised \in {"none", "OSError"}
        /\ call.raised = "OSError" <=>
              /\ call.env.move = "fail"
              /\ call.env.copy = "fail" \/ call.env.unlink = "fail"
        /\ call.raised = "none" => Moved
        /\ call.raised = "OSError" => call.fn \in call.post.input

\* the move failed on a name collision and the fallback archived the file
C15_Witness ==
    /\ Archiving /\ call.raised = "none"
    /\ call.env = [move |-> "fail", copy |-> "ok", unlink |-> "ok"]
    /\ call.dest.ts # 0
    /\ call.fn \notin input

---------------------------------------------------------------------------
(* selectors.py: sample_attendee_ids *)

\* the directories, which no call of a selector touches
fsVars == <<input, kind, archiveRoot, archiveDirs, archived, clock>>

FsIdle ==
    /\ input = {}
    /\ kind = [f \in FileNames |-> "ok"]
    /\ archiveRoot = FALSE
    /\ archiveDirs = {}
    /\ archived = <<>>
    /\ clock = 1

\* the greatest count argument; the least is -1
MaxCount == 9

\* the number of ID columns
Slots == 8

\* the two house IDs, in the order the candidates are collected
House == << <<"2">>, <<"1">> >>

\* an empty slot
Blank == <<>>

\* "0" * n
Zeros(n) == [i \in 1..n |-> "0"]

\* the ID lists the model samples from: the lists of the tests, lists without a
\* house ID, a list that repeats an ID (two NameList rows with the same ID), and
\* a list of nine distinct IDs written with leading zeros
Pools ==
    { <<>>,
      << <<"3">> >>,
      << <<"1">>, <<"2">> >>,
      << <<"1">>, <<"2">>, <<"3">> >>,
      << <<"1">>, <<"2">>, <<"1", "0">>, <<"3">>, <<"2", "0">> >>,
      << <<"1">>, <<"2">>, <<"3">>, <<"4">>, <<"5">> >>,
      << <<"1", "0">>, <<"4">>, <<"3">> >>,
      << <<"3">>, <<"3">> >>,
      << <<"1">>, <<"1">>, <<"3">> >>,
      << Zeros(1), Zeros(2), Zeros(3), Zeros(4), Zeros(5), Zeros(6), Zeros(7), Zeros(8),
         <<"2">> >> }

IdSet == UNION {Range(p) : p \in Pools}

PoolPositions == UNION {DOMAIN p : p \in Pools}

\* float("inf"), the key of an ID that is not a number
Inf == 1000000

\* key=lambda x: int(x) if x.isdigit() else float("inf")
SortKey(x) ==
    IF x # <<>> /\ \A i \in 1..Len(x) : x[i] \in Digits THEN ToInt(x) ELSE Inf

id_key == [x \in IdSet |-> SortKey(x)]

\* list.sort(key=...): stable, an element goes after those whose key is not greater
RECURSIVE InsertByKey(_, _)
InsertByKey(sorted, x) ==
    IF sorted = <<>> THEN <<x>>
    ELSE IF id_key[Head(sorted)] <= id_key[x]
    THEN <<Head(sorted)>> \o InsertByKey(Tail(sorted), x)
    ELSE <<x>> \o sorted

RECURSIVE SortIds(_)
SortIds(ids) ==
    IF ids = <<>> THEN <<>>
    ELSE InsertByKey(SortIds(SubSeq(ids, 1, Len(ids) - 1)), ids[Len(ids)])

\* [id_str for id_str in available_ids if id_str != primary_id]
RECURSIVE Without(_, _)
Without(pool, p) ==
    IF pool = <<>> THEN <<>>
    ELSE IF Head(pool) = p THEN Without(Tail(pool), p)
    ELSE <<Head(pool)>> \o Without(Tail(pool), p)

RemoveAt(s, i) == SubSeq(s, 1, i - 1) \o SubSeq(s, i + 1, Len(s))

Min(a, b) == IF a <= b THEN a ELSE b

\* a primary drawn from the whole list
PrimaryChoices_AnyId(pool) ==
    IF \E i \in 1..Len(House) : House[i] \in Range(pool) THEN Range(pool) ELSE {}

\* the IDs random.choices can return: the house IDs in available_ids, both
\* weights being positive
PrimaryChoices(pool) == {House[i] : i \in 1..Len(House)} \cap Range(pool)

\* selected_ids + [""] * (8 - len(selected_ids)), then [:8]
Padded(ids) ==
    SubSeq(ids \o [i \in 1..(IF Len(ids) < Slots THEN Slots - Len(ids) ELSE 0) |-> Blank],
           1, Slots)

InitSample ==
    /\ RunIdle
    /\ FsIdle
    /\ \E c \in -1..MaxCount, p \in Pools :
          call = [op |-> "args", count |-> c, pool |-> p]

\* count > 0 and a house ID is in available_ids: random.choices draws the primary,
\* the other IDs will come from the list without it
SamplePrimary(p) ==
    /\ call.op = "args"
    /\ call.count > 0
    /\ p \in PrimaryChoices(call.pool)
    /\ call' = [op |-> "drawing", count |-> call.count, pool |-> call.pool,
                primary |-> p, drawn |-> <<p>>, rest |-> Without(call.pool, p),
                need |-> Min(call.count - 1, Len(Without(call.pool, p)))]
    /\ UNCHANGED fsVars
    /\ UNCHANGED runVars

\* count <= 0: nothing is drawn; no house ID: everything is drawn from the whole list
SampleNoPrimary ==
    /\ call.op = "args"
    /\ call.count <= 0 \/ PrimaryChoices(call.pool) = {}
    /\ call' = [op |-> "drawing", count |-> call.count, pool |-> call.pool,
                primary |-> Blank, drawn |-> <<>>,
                rest |-> IF call.count <= 0 THEN <<>> ELSE call.pool,
                need |-> IF call.count <= 0 THEN 0 ELSE Min(call.count, Len(call.pool))]
    /\ UNCHANGED fsVars
    /\ UNCHANGED runVars

\* random.sample draws the entry at one of the positions not drawn yet
DrawOne(i) ==
    /\ call.op = "drawing"
    /\ call.need > 0
    /\ i \in 1..Len(call.rest)
    /\ call' = [call EXCEPT !.drawn = Append(@, call.rest[i]),
                            !.rest = RemoveAt(@, i),
                            !.need = @ - 1]
    /\ UNCHANGED fsVars
    /\ UNCHANGED runVars

\* the draws are over: sort, pad, cut, return
SampleReturn ==
    /\ call.op = "drawing"
    /\ call.need = 0
    /\ call' = [op |-> "sample_attendee_ids", count |-> call.count, pool |-> call.pool,
                primary |-> call.primary, drawn |-> call.drawn,
                ids |-> Padded(SortIds(call.drawn))]
    /\ UNCHANGED fsVars
    /\ UNCHANGED runVars

NextSample ==
    \/ \E p \in IdSet : SamplePrimary(p)
    \/ SampleNoPrimary
    \/ \E i \in PoolPositions : DrawOne(i)
    \/ SampleReturn

SpecSample == InitSample /\ [][NextSample]_vars

\* sample_attendee_ids has returned
Sampled == call.op = "sample_attendee_ids"

\* the positions of the non-empty slots of the result
Filled == {i \in 1..Len(call.ids) : call.ids[i] # Blank}

\* the house IDs in the list of the call
HouseIn == Range(House) \cap Range(call.pool)

HousePresent == HouseIn # {}

\* C16: every result has exactly 8 slots, its non-empty slots hold pairwise
\* distinct IDs in ascending numeric order, and no empty slot comes before a
\* non-empty one, whatever the count, the list of IDs and the order of the draws
C16_SlotsInvariant ==
    Sampled =>
        /\ Len(call.ids) = Slots
        /\ \A i, j \in Filled :
              i < j => call.ids[i] # call.ids[j] /\ id_key[call.ids[i]] <= id_key[call.ids[j]]
        /\ \A i \in Filled : \A j \in 1..i : j \in Filled

\* C17: the number of non-empty slots is count when 0 <= count <= 8 and the list
\* has at least count IDs, 0 when count <= 0, and at most the length of the list
\* when the list is shorter than count
C17_NonEmptyCount ==
    Sampled =>
        /\ call.count <= 0 => Filled = {}
        /\ (call.count \in 0..Slots /\ Len(call.pool) >= call.count) =>
              Cardinality(Filled) = call.count
        /\ Len(call.pool) < call.count => Cardinality(Filled) <= Len(call.pool)

\* C18 as stated: with count >= 1 and a house ID in the list, the primary is one of
\* the house IDs present and every result has it in a non-empty slot; with no
\* house ID every ID is drawn from the whole list
C18_PrimaryInResult ==
    (Sampled /\ call.count >= 1) =>
        IF HousePresent
        THEN /\ call.primary \in HouseIn
             /\ \E i \in Filled : call.ids[i] = call.primary
        ELSE /\ call.primary = Blank
             /\ Range(call.drawn) \subseteq Range(call.pool)

\* C18, amended: with count >= 1 and a house ID in the list, the primary is one of
\* the house IDs present and is the first ID selected; every result for a count of
\* at most 8 has it in a non-empty slot (for a larger count the cut to 8 slots
\* after the sort drops it when 8 selected IDs sort before it); with no house ID
\* min(count, length of the list) IDs are drawn from the whole list
C18_PrimaryKept ==
    (Sampled /\ call.count >= 1) =>
        IF HousePresent
        THEN /\ call.primary \in HouseIn
             /\ call.drawn[1] = call.primary
             /\ call.count <= Slots => \E i \in Filled : call.ids[i] = call.primary
        ELSE /\ call.primary = Blank
             /\ Range(call.drawn) \subseteq Range(call.pool)
             /\ Len(call.drawn) = Min(call.count, Len(call.pool))

\* both house IDs were in the list, "1" was drawn as the primary and is in the
\* result together with other IDs
C18_Witness ==
    /\ Sampled
    /\ call.count \in 3..Slots
    /\ HouseIn = {House[1], House[2]}
    /\ call.primary = House[2]
    /\ Cardinality(Filled) >= 3
    /\ \E i \in Filled : call.ids[i] = call.primary

---------------------------------------------------------------------------
(* selectors.py: estimate_attendee_count; amounts in thousands of yen *)

\* the greatest amount; the least is -1 (a refund)
MaxAmount == 25

\* (min_attendees, max_attendees): the defaults, the pair of the tests, and a
\* maximum below the floor of the fallback
AttendeeRanges == {<<2, 8>>, <<3, 5>>, <<1, 1>>}

\* cost_per_person
Costs == {1, 3}

Bracket(l, h, mn, mx) == [low |-> l, high |-> h, min |-> mn, max |-> mx]

\* amount_brackets in dict order, <<>> being None or an empty dict: none, two
\* disjoint brackets with a gap and an end, two overlapping brackets, and
\* brackets whose attendee range leaves [min_attendees, max_attendees]
BracketTables ==
    { <<>>,
      << Bracket(0, 5, 2, 3), Bracket(8, 12, 3, 5) >>,
      << Bracket(0, 10, 2, 2), Bracket(5, 20, 4, 6) >>,
      << Bracket(0, 5, 1, 1), Bracket(6, 30, 9, 10) >> }

Max(a, b) == IF a >= b THEN a ELSE b

\* int(amount / cost_per_person): the quotient cut towards zero
TruncDiv(a, c) == IF a >= 0 THEN a \div c ELSE 0 - ((0 - a) \div c)

\* a fallback that is not capped
FallbackCount_Uncapped(amount, cpp, hi) == Max(2, TruncDiv(amount, cpp))

\* min(max(2, int(amount / cost_per_person)), max_attendees)
FallbackCount(amount, cpp, hi) == Min(Max(2, TruncDiv(amount, cpp)), hi)

\* the brackets with bracket_min <= amount <= bracket_max
Matching(table, amount) ==
    {i \in 1..Len(table) : table[i].low <= amount /\ amount <= table[i].high}

\* the last of the matching brackets
MatchedBracket_Last(table, amount) ==
    table[CHOOSE i \in Matching(table, amount) : \A j \in Matching(table, amount) : j <= i]

\* the bracket the loop over amount_brackets.items() returns from: the first match
MatchedBracket(table, amount) ==
    table[CHOOSE i \in Matching(table, amount) : \A j \in Matching(table, amount) : i <= j]

\* the counts estimate_attendee_count can return
Estimates(amount, lo, hi, table, cpp) ==
    IF table # <<>>
    THEN IF Matching(table, amount) # {}
         THEN MatchedBracket(table, amount).min..MatchedBracket(table, amount).max
         ELSE {FallbackCount(amount, cpp, hi)}
    ELSE lo..hi

InitEstimate ==
    /\ RunIdle
    /\ FsIdle
    /\ \E a \in -1..MaxAmount, r \in AttendeeRanges, t \in BracketTables, c \in Costs :
          call = [op |-> "args", amount |-> a, min_attendees |-> r[1],
                  max_attendees |-> r[2], amount_brackets |-> t, cost_per_person |-> c]

\* estimate_attendee_count(amount, min_attendees, max_attendees, amount_brackets,
\* cost_per_person) returns n
EstimateCall(n) ==
    /\ call.op = "args"
    /\ n \in Estimates(call.amount, call.min_attendees, call.max_attendees,
                       call.amount_brackets, call.cost_per_person)
    /\ call' = [call EXCEPT !.op = "estimate_attendee_count"] @@ [result |-> n]
    /\ UNCHANGED fsVars
    /\ UNCHANGED runVars

NextEstimate ==
    /\ call.op = "args"
    /\ \E n \in Estimates(call.amount, call.min_attendees, call.max_attendees,
                          call.amount_brackets, call.cost_per_person) : EstimateCall(n)

SpecEstimate == InitEstimate /\ [][NextEstimate]_vars

\* estimate_attendee_count has returned
Estimated == call.op = "estimate_attendee_count"

\* the positions of the brackets whose inclusive range contains the amount of the call
Hits ==
    {i \in 1..Len(call.amount_brackets) :
        call.amount_brackets[i].low <= call.amount /\ call.amount <= call.amount_brackets[i].high}

\* floor(amount / costPerPerson)
Floor == call.amount \div call.cost_per_person

\* C19: with a bracket table and a bracket whose [low, high] contains the amount,
\* the result lies in the [min, max] of the first such bracket in table order;
\* with a table and no such bracket it is min(max(2, floor(amount /
\* costPerPerson)), maxAttendees); with no table it lies in
\* [minAttendees, maxAttendees]
C19_ThreeTiers ==
    Estimated =>
        IF call.amount_brackets # <<>> /\ Hits # {}
        THEN \E i \in Hits :
                /\ \A j \in Hits : i <= j
                /\ call.result \in call.amount_brackets[i].min..call.amount_brackets[i].max
        ELSE IF call.amount_brackets # <<>>
        THEN call.result = (IF (IF Floor >= 2 THEN Floor ELSE 2) <= call.max_attendees
                            THEN (IF Floor >= 2 THEN Floor ELSE 2)
                            ELSE call.max_attendees)
        ELSE call.result \in call.min_attendees..call.max_attendees

\* an amount lying in two brackets got the count of the first of them
C19_Witness ==
    /\ Estimated
    /\ Cardinality(Hits) = 2
    /\ call.result = call.amount_brackets[1].max
    /\ call.result < call.amount_brackets[2].min

\* C20 as stated: for every amount and configuration the result is at least
\* min_attendees and at most max_attendees
C20_WithinMinMax ==
    Estimated => call.min_attendees <= call.result /\ call.result <= call.max_attendees

\* C20, amended: with no bracket table the result is at least min_attendees and
\* at most max_attendees for every amount; with a bracket table the fallback is at
\* most max_attendees and at least min(2, max_attendees), and a matched bracket
\* bounds the result by its own [min, max]; min_attendees plays no part then
C20_Bounds ==
    Estimated =>
        /\ call.amount_brackets = <<>> =>
              call.min_attendees <= call.result /\ call.result <= call.max_attendees
        /\ (call.amount_brackets # <<>> /\ Hits = {}) =>
              /\ call.result <= call.max_attendees
              /\ call.result >= (IF call.max_attendees < 2 THEN call.max_attendees ELSE 2)
        /\ (call.amount_brackets # <<>> /\ Hits # {}) =>
              \E i \in Hits : /\ call.amount_brackets[i].min <= call.result
                              /\ call.result <= call.amount_brackets[i].max

\* a fallback for a large amount stopped at max_attendees, below which the
\* quotient alone would not have stayed
C20_Witness ==
    /\ Estimated
    /\ call.amount_brackets # <<>> /\ Hits = {}
    /\ Floor > call.max_attendees
    /\ call.result = call.max_attendees
    /\ call.max_attendees > 2

---------------------------------------------------------------------------
(* Further properties of run and of archive_file *)

\* the positions of the attempted files that are empty or whitespace-only
EmptyAttempts == {i \in 1..Len(attempted) : kind[attempted[i]] = "empty"}

\* the markers written by an invocation of the model (those it starts from carry 0)
WrittenMarkers == {m \in DOMAIN markers : markers[m].timestamp >= 1}

\* C24: an empty or whitespace-only input file is skipped without an error: it
\* stays in Input/, the run writes no output for it and archives no copy of it, no
\* marker a run writes names it, and a run whose exit status is not 0 owes it to
\* another file
C24_EmptyFileSkipped ==
    /\ \A i \in EmptyAttempts :
          /\ outcomes[i] = "skipped"
          /\ attempted[i] \in input
          /\ \A o \in output \ startFs.output : o.stem # Stem(attempted[i])
          /\ \A p \in DOMAIN archived : p.name # attempted[i]
          /\ \A m \in WrittenMarkers :
                attempted[i] \notin Range(markers[m].failed_files)
    /\ (RunComplete /\ exitCode # 0) =>
          \E i \in 1..Len(attempted) : i \notin EmptyAttempts /\ outcomes[i] = "error"
    /\ (RunComplete /\ EmptyAttempts = 1..Len(attempted)) =>
          exitCode = 0 /\ error_count = 0 /\ processed_count = 0

\* a run over nothing but an empty file has ended with exit status 0
C24_Witness ==
    /\ RunComplete
    /\ attempted # <<>>
    /\ EmptyAttempts = 1..Len(attempted)
    /\ exitCode = 0
    /\ markers = startFs.markers

\* the files of the model whose name has no valid YYYYMM_ prefix
Unkeyed == {f \in FileNames : file_month_of[f] = None}

\* the number of Output/<stem>.csv, <stem>_2.csv, ... in a set of output paths
CsvCount(out, st) == Cardinality({o \in out : o.stem = st /\ o.ext = "csv"})

\* C30: a file without a valid YYYYMM_ prefix never makes the guard reject, is
\* never archived and never named in a marker; a run that attempts it leaves it
\* in Input/, and when the file reaches the writer the run adds one more
\* Output/<stem>.csv, suffixed with the number of those already there plus one
C30_UnkeyedOutsideArchival ==
    /\ result = "AlreadyArchivedConflict" =>
          \E m \in SelectedMonths : ArchivedCleanAtStart(m)
    /\ \A p \in DOMAIN archived : p.name \notin Unkeyed
    /\ \A m \in DOMAIN markers :
          m # None /\ Range(markers[m].failed_files) \cap Unkeyed = {}
    /\ \A i \in 1..Len(attempted) :
          attempted[i] \in Unkeyed =>
             /\ attempted[i] \in input
             /\ (kind[attempted[i]] = "ok" /\ outputWritable) =>
                   /\ CsvCount(output, Stem(attempted[i]))
                         = CsvCount(startFs.output, Stem(attempted[i])) + 1
                   /\ [stem |-> Stem(attempted[i]), ext |-> "csv",
                       n |-> CsvCount(output, Stem(attempted[i]))] \in output

\* the second run over note.csv, with Archive/202510/ in place and no marker, has
\* written Output/note_2.csv and left the file in Input/
C30_Witness ==
    /\ RunComplete
    /\ runs = 2
    /\ Fnote \in Range(attempted)
    /\ Fnote \in input
    /\ [stem |-> Stem(Fnote), ext |-> "csv", n |-> 2] \in output \ startFs.output
    /\ M10 \in archiveDirs /\ M10 \notin DOMAIN markers

\* C29: in every outcome of archive_file the content of the file is at the source
\* path or at the destination under Archive/<month>/, and whenever archive_file
\* raises the source is still at its path
C29_FileNeverLost ==
    Archiving =>
        /\ \/ call.fn \in call.post.input
           \/ /\ call.dest \in DOMAIN call.post.archived
              /\ call.post.archived[call.dest] = call.body
        /\ call.raised # "none" => call.fn \in call.post.input

\* the copy succeeded and the removal of the source failed: archive_file raised
\* and the content is at both paths
C29_Witness ==
    /\ Archiving
    /\ call.raised = "OSError"
    /\ call.env = [move |-> "fail", copy |-> "ok", unlink |-> "fail"]
    /\ call.fn \in call.post.input
    /\ call.dest \in DOMAIN call.post.archived
    /\ call.post.archived[call.dest] = call.body

---------------------------------------------------------------------------
(* The month helpers of month_utils.py, called directly *)

\* the longest list of files and the greatest n the helpers are called with
MaxFiles == 3
MaxN == 3

\* Archive/.retry_202510.json
RetryName == <<".", "r", "e", "t", "r", "y", "_">> \o M10 \o <<".", "j", "s", "o", "n">>

\* the entries Archive/ can hold: [name, is_dir]; every probe name as a directory,
\* a retry marker and a plain file named 202511
ArchiveItems ==
    [name : ProbeDirNames, is_dir : {TRUE}]
       \cup {[name |-> RetryName, is_dir |-> FALSE], [name |-> M11, is_dir |-> FALSE]}

\* a directory holds one entry per name
OnePerName(items) == \A i, j \in items : i.name = j.name => i = j

\* for item in archive_dir.iterdir(): if item.is_dir(): dir_name = item.name
SubDirs(items) == {i.name : i \in {j \in items : j.is_dir}}

\* the months arguments of filter_files_by_months
MonthLists == {<<>>, <<M10>>, <<M11, M10>>, <<M10, M10>>, <<M09, M11>>, <<M13>>, <<Y1899>>}

\* the lists of at most MaxFiles files
FileLists == UNION {[1..k -> ListedNames] : k \in 0..MaxFiles}

InitMonths ==
    /\ RunIdle
    /\ FsIdle
    /\ \/ \E f \in ProbeNames :
             call = [op |-> "args", fun |-> "get_month_from_filename", filename |-> f]
       \/ \E e \in BOOLEAN, it \in SUBSET ArchiveItems :
             /\ e \/ it = {}
             /\ OnePerName(it)
             /\ call = [op |-> "args", fun |-> "get_archived_months", exists |-> e, items |-> it]
       \/ \E e \in BOOLEAN, fs \in SUBSET ListedNames, n \in 0..MaxN :
             /\ e \/ fs = {}
             /\ call = [op |-> "args", fun |-> "get_latest_months", exists |-> e,
                        files |-> fs, n |-> n]
       \/ \E fs \in FileLists, ms \in MonthLists :
             call = [op |-> "args", fun |-> "filter_files_by_months", csv_files |-> fs,
                     months |-> ms]

\* the call returns r
Returned(r) ==
    /\ call' = [call EXCEPT !.op = call.fun] @@ [result |-> r]
    /\ UNCHANGED fsVars
    /\ UNCHANGED runVars

MonthCall ==
    /\ call.op = "args" /\ call.fun = "get_month_from_filename"
    /\ Returned(get_month_from_filename(call.filename))

ArchivedMonthsCall ==
    /\ call.op = "args" /\ call.fun = "get_archived_months"
    /\ Returned(get_archived_months(call.exists, SubDirs(call.items)))

\* if not input_dir.exists(): return []
LatestMonthsCall ==
    /\ call.op = "args" /\ call.fun = "get_latest_months"
    /\ Returned(IF call.exists THEN get_latest_months(call.files, call.n) ELSE <<>>)

FilterCall ==
    /\ call.op = "args" /\ call.fun = "filter_files_by_months"
    /\ Returned(filter_files_by_months(call.csv_files, call.months))

NextMonths ==
    \/ MonthCall
    \/ ArchivedMonthsCall
    \/ LatestMonthsCall
    \/ FilterCall

SpecMonths == InitMonths /\ [][NextMonths]_vars

\* the names of the probe set that start with six digits and "_", with the year in
\* 1900..2100 and the month in 1..12, written out
KeyedProbes ==
    {DigitsOf(y, 4) \o DigitsOf(m, 2) \o <<"_", "a">> : y \in {1900, 2025, 2100}, m \in {1, 12}}

\* C25: get_month_from_filename returns the first six characters of the name iff
\* the name starts with exactly six digits followed by "_" and the digits have the
\* year in 1900..2100 and the month in 1..12; it returns None for every other name
\* (five or seven digits, digits not at the start, no "_", month 00 or 13, year
\* 1899 or 2101)
C25_MonthOfFilename ==
    call.op = "get_month_from_filename" =>
        call.result = IF call.filename \in KeyedProbes
                      THEN SubSeq(call.filename, 1, 6)
                      ELSE None

\* 210012_a.csv, on both upper limits, gave 210012
C25_Witness ==
    /\ call.op = "get_month_from_filename"
    /\ call.filename = <<"2", "1", "0", "0", "1", "2", "_", "a">>
    /\ call.result = <<"2", "1", "0", "0", "1", "2">>

\* the probe names of Archive/ that are six digits with a valid year and month
ValidDirNames == {M09, M10, M11}

\* the retry markers among the entries of Archive/
MarkerItems == {i \in ArchiveItems : i.name = RetryName}

\* C26: get_archived_months returns exactly the names of the sub-directories of
\* Archive/ that are six digits with the year in 1900..2100 and the month in 1..12:
\* plain files and other directory names are ignored, retry markers make no
\* difference, a missing or empty Archive/ gives the empty set
C26_ArchivedMonthsExact ==
    call.op = "get_archived_months" =>
        call.result = {i.name : i \in {j \in call.items \ MarkerItems :
                                          j.is_dir /\ j.name \in ValidDirNames}}

\* the key a listed file has, and the order of the keys, written out
ExpectedKey == (F09a :> M09) @@ (F10a :> M10) @@ (F10b :> M10) @@ (F11a :> M11)
KeyRank == (M09 :> 1) @@ (M10 :> 2) @@ (M11 :> 3)
KeysAmong(files) == {ExpectedKey[f] : f \in files \cap DOMAIN ExpectedKey}

\* C27: get_latest_months(dir, n) returns min(n, number of distinct keys) keys, all
\* of them keys of CSV files of dir, in strictly descending order (so without
\* duplicates), and none of the keys left out is greater than one returned; files
\* without a valid key are ignored, a missing directory or one without a keyed
\* file gives the empty list
C27_LatestMonths ==
    call.op = "get_latest_months" =>
        LET r == call.result
            keys == KeysAmong(call.files)
        IN  /\ Len(r) = IF call.n < Cardinality(keys) THEN call.n ELSE Cardinality(keys)
            /\ Range(r) \subseteq keys
            /\ \A i, j \in 1..Len(r) : i < j => KeyRank[r[i]] > KeyRank[r[j]]
            /\ \A k \in keys \ Range(r) : \A x \in Range(r) : KeyRank[k] < KeyRank[x]
            /\ (~call.exists \/ keys = {}) => r = <<>>

\* three keys in the directory, next to files without a key, and n = 2 gave
\* 202511, 202510
C27_Witness ==
    /\ call.op = "get_latest_months"
    /\ call.files = ListedNames
    /\ call.n = 2
    /\ call.result = <<M11, M10>>

\* C28: filter_files_by_months(files, months) with months non-empty returns, in
\* their original order, exactly the files whose valid month key is in months
\* (files without a key are left out, a list matching nothing gives the empty
\* list); with months empty it returns files unchanged
C28_FilterByMonths ==
    call.op = "filter_files_by_months" =>
        call.result =
            IF call.months = <<>> THEN call.csv_files
            ELSE Restrict(call.csv_files,
                          {f \in DOMAIN ExpectedKey : ExpectedKey[f] \in Range(call.months)})

\* a list that starts with a file without a key, filtered by two months
C28_Witness ==
    /\ call.op = "filter_files_by_months"
    /\ call.csv_files = <<Fnote, F11a, F10a>>
    /\ call.months = <<M11, M10>>
    /\ call.result = <<F11a, F10a>>

---------------------------------------------------------------------------
(* io.py: find_header_row, read_csv_with_detection and write_csv_utf8_bom over *)
(* files as lists of lines.  A line is the sequence of its pieces of text,     *)
(* ending with "\n"; a column name is the sequence of its pieces, so that      *)
(* `alias in line` is computed as a substring test.  The pieces stand for the  *)
(* Japanese words of the source: riyoubi = 利用日, goriyoutenmei =             *)
(* ご利用店名及び商品名, riyoukingaku = 利用金額, kamoku = 科目, &No. = ＆No.,  *)
(* bikou = 備考, goukei = 合計.                                                *)

Riyoubi == <<"riyoubi">>
Tenmei == <<"goriyoutenmei">>
Kingaku == <<"riyoukingaku">>
KamokuNo == <<"kamoku", "&No.">>
Bikou == <<"bikou">>
Kamoku == <<"kamoku">>

REQUIRED_COLUMNS == <<Riyoubi, Tenmei, Kingaku, KamokuNo>>

COLUMN_ALIASES == [c \in {KamokuNo} |-> <<KamokuNo, Bikou, Kamoku>>]

\* only the first 20 lines are scanned
ScanLimit == 20

\* the None of find_header_row
NotFound == -1

\* alias in line
Contains(line, a) ==
    \E i \in 1..(Len(line) - Len(a) + 1) : SubSeq(line, i, i + Len(a) - 1) = a

\* the header test with the canonical names only
HasAllColumns_CanonicalOnly(line) ==
    \A c \in Range(REQUIRED_COLUMNS) : Contains(line, c)

\* for col in REQUIRED_COLUMNS: any(alias in line for alias in COLUMN_ALIASES.get(col, [col]))
HasAllColumns(line) ==
    \A c \in Range(REQUIRED_COLUMNS) :
        LET aliases == IF c \in DOMAIN COLUMN_ALIASES THEN COLUMN_ALIASES[c] ELSE <<c>>
        IN  \E a \in Range(aliases) : Contains(line, a)

\* the zero-based index of the first of the first 20 lines that passes the test
find_header_row(lines) ==
    LET hits == {i \in 1..Min(Len(lines), ScanLimit) : HasAllColumns(lines[i])}
    IN  IF hits = {} THEN NotFound
        ELSE (CHOOSE i \in hits : \A j \in hits : i <= j) - 1

\* str.strip() of the whole text leaves nothing
Whitespace(line) == \A i \in 1..Len(line) : line[i] \in {"\n", " "}
AllBlank(lines) == \A i \in 1..Len(lines) : Whitespace(lines[i])

\* the fields of a line: its text without the "\n", split at ","
RECURSIVE SplitLine(_)
SplitLine(line) ==
    IF line = <<>> \/ Head(line) = "\n" THEN <<<<>>>>
    ELSE LET rest == SplitLine(Tail(line))
         IN  IF Head(line) = "," THEN <<<<>>>> \o rest
             ELSE <<<<Head(line)>> \o Head(rest)>> \o Tail(rest)

\* one line of DataFrame.to_csv(index=False): the cells joined by ","
RECURSIVE JoinLine(_)
JoinLine(cells) ==
    IF Len(cells) = 1 THEN Head(cells) \o <<"\n">>
    ELSE Head(cells) \o <<",">> \o JoinLine(Tail(cells))

\* a table: [header: the column names, rows: the rows of cells]
to_csv(df) == <<JoinLine(df.header)>> \o [i \in 1..Len(df.rows) |-> JoinLine(df.rows[i])]

\* pd.DataFrame()
EmptyFrame == [header |-> <<>>, rows |-> <<>>]

RECURSIVE NonBlank(_)
NonBlank(lines) ==
    IF lines = <<>> THEN <<>>
    ELSE IF Head(lines) = <<"\n">> THEN NonBlank(Tail(lines))
    ELSE <<Head(lines)>> \o NonBlank(Tail(lines))

\* a row of n cells: missing cells are filled with NaN, which to_csv writes empty
PadRow(row, n) == [i \in 1..n |-> IF i <= Len(row) THEN row[i] ELSE <<>>]

\* the rows of a table pandas built from lines of unequal length
Mangled == <<<<<<"?">>>>>>

\* pd.read_csv of the lines from the header on: the first non-blank line gives the
\* column names, blank lines are skipped.  When a line has more fields than the
\* header the outcome is pandas' (a ParserError, or a table with index columns):
\* the model keeps both, the table with rows it does not follow
read_csv(lines) ==
    LET text == NonBlank(lines)
        header == SplitLine(Head(text))
        rows == [i \in 1..(Len(text) - 1) |-> SplitLine(text[i + 1])]
    IN  IF text = <<>> THEN {[raised |-> "EmptyDataError"]}
        ELSE IF \E i \in 1..Len(rows) : Len(rows[i]) > Len(header)
        THEN {[raised |-> "ParserError"],
              [raised |-> "none", df |-> [header |-> header, rows |-> Mangled]]}
        ELSE {[raised |-> "none",
               df |-> [header |-> header,
                       rows |-> [i \in 1..Len(rows) |-> PadRow(rows[i], Len(header))]]]}

\* df.rename(columns=column_mapping): a required column that is missing takes the
\* place of the first of its aliases that is a column
Rename(header) ==
    LET missing == {c \in DOMAIN COLUMN_ALIASES : c \notin Range(header)}
        first(c) == LET al == COLUMN_ALIASES[c]
                        at == {k \in 1..Len(al) : al[k] \in Range(header)}
                    IN  IF at = {} THEN <<>> ELSE al[CHOOSE k \in at : \A l \in at : k <= l]
    IN  [i \in 1..Len(header) |->
            IF \E c \in missing : first(c) = header[i]
            THEN CHOOSE c \in missing : first(c) = header[i]
            ELSE header[i]]

\* pre-header rows that leave the blank lines out
pre_header_rows_NoBlank(all_lines, header_row) ==
    IF header_row > 0 THEN NonBlank(SubSeq(all_lines, 1, header_row)) ELSE <<>>

\* all_lines[:header_row] if header_row > 0 else []
pre_header_rows(all_lines, header_row) ==
    IF header_row > 0 THEN SubSeq(all_lines, 1, header_row) ELSE <<>>

\* the results read_csv_with_detection can give on a decodable file: (df, pre_header_rows),
\* or an exception; found is what find_header_row returned
read_csv_with_detection(all_lines) ==
    LET found == find_header_row(all_lines)
        header_row == IF found = NotFound THEN 0 ELSE found
    IN  IF all_lines = <<>> \/ AllBlank(all_lines)
        THEN {[raised |-> "none", found |-> found, df |-> EmptyFrame, pre |-> <<>>]}
        ELSE {IF r.raised = "none"
              THEN [raised |-> "none", found |-> found,
                    df |-> [r.df EXCEPT !.header = Rename(@)],
                    pre |-> pre_header_rows(all_lines, header_row)]
              ELSE [raised |-> IF r.raised = "EmptyDataError" THEN "ValueError" ELSE r.raised,
                    found |-> found]
              : r \in read_csv(SubSeq(all_lines, header_row + 1, Len(all_lines)))}

\* the lines write_csv_utf8_bom writes: the pre-header rows as they are, then the table
written_lines(df, pre) == pre \o to_csv(df)

---------------------------------------------------------------------------
(* Writes and reads of Output/out.csv.  Here output maps each path of Output/ to *)
(* the file at it: its lines and, as history, what wrote it and with which       *)
(* arguments.                                                                    *)

\* the write calls the model follows
MaxWrites == 3

OutStem == <<"o", "u", "t">>
OutFile(n) == [stem |-> OutStem, ext |-> "csv", n |-> n]

Rep(x, n) == [i \in 1..n |-> x]

\* lines of a card statement above its header: a title, a blank line, and a line
\* of notes that names the columns
Title == <<"meisai", "\n">>
BlankLine == <<"\n">>
Notes == <<"riyoubi", "/", "goriyoutenmei", "/", "riyoukingaku", "/", "kamoku", "\n">>

\* cells
D1 == <<"2025-10-01">>
S1 == <<"mise">>
A1 == <<"1000">>
K1 == <<"kaigihi">>

\* tables whose header holds all required columns
TableA == [header |-> REQUIRED_COLUMNS, rows |-> <<<<D1, S1, A1, K1>>>>]
TableB == [header |-> REQUIRED_COLUMNS \o <<Bikou>>,
           rows |-> <<<<D1, S1, A1, K1, <<>>>>, <<D1, S1, A1, <<>>, K1>>>>]
TableC == [header |-> <<<<"No">>>> \o REQUIRED_COLUMNS, rows |-> <<>>]

\* the (table, pre-header rows) pairs write_csv_utf8_bom is called with
Docs ==
    <<[df |-> TableC, pre |-> <<>>],
      [df |-> TableB, pre |-> <<Title, Title, BlankLine>>],
      [df |-> TableA, pre |-> Rep(Title, ScanLimit - 1)],
      [df |-> TableA, pre |-> Rep(Title, ScanLimit)],
      [df |-> TableA, pre |-> <<Title, Notes>>]>>

\* files that were not written by write_csv_utf8_bom
AliasHeader == JoinLine(<<Riyoubi, Tenmei, Kingaku, Bikou>>)
Row4 == JoinLine(<<D1, S1, A1, K1>>)
ForeignFiles ==
    {<<>>,
     <<BlankLine, <<" ", "\n">>>>,
     <<JoinLine(<<<<"col1">>, <<"col2">>>>), JoinLine(<<<<"data1">>, <<"data2">>>>)>>,
     <<Title, Title, BlankLine, AliasHeader, Row4>>,
     Rep(Title, ScanLimit - 1) \o <<AliasHeader, Row4>>,
     Rep(Title, ScanLimit) \o <<AliasHeader, Row4>>,
     <<AliasHeader, Row4, AliasHeader>>,
     <<JoinLine(<<Riyoubi, Tenmei, Kingaku>>), JoinLine(<<D1, S1, A1>>)>>,
     <<JoinLine(<<Riyoubi, Tenmei, Kingaku \o <<"goukei">>, Kamoku>>), Row4>>}

\* a file is [lines, doc]: doc is the position in Docs of the arguments it was
\* written with, 0 for a file that write_csv_utf8_bom did not write
InitCsv ==
    /\ FsIdle
    /\ outputWritable = TRUE /\ namelist = TRUE /\ markers = <<>> /\ phase = "idle"
    /\ runs = 0 /\ force = FALSE /\ csv_files = <<>> /\ idx = 1
    /\ month_results = NoResults /\ processed_count = 0 /\ error_count = 0
    /\ result = "none" /\ exitCode = -1 /\ startFs = <<>> /\ attempted = <<>>
    /\ outcomes = <<>> /\ readLog = {} /\ prevResult = "none"
    /\ lastTouch = [m \in MonthKeys |-> "never"]
    /\ \/ output = <<>>
       \/ \E f \in ForeignFiles :
             output = (OutFile(2) :> [lines |-> f, doc |-> 0])
    /\ call = [op |-> "none", writes |-> 0, clean |-> (output = <<>>)]

csvVars == <<outputWritable, namelist, markers, phase, runs, force, csv_files, idx,
             month_results, processed_count, error_count, result, exitCode, startFs,
             attempted, outcomes, readLog, prevResult, lastTouch>>

\* write_csv_utf8_bom(Docs[doc].df, Output/out.csv, handle_duplicates, Docs[doc].pre)
WriteCall(doc, handle_duplicates) ==
    /\ call.writes < MaxWrites
    /\ LET output_path == IF handle_duplicates
                          THEN OutPath(DOMAIN output, OutStem, "csv")
                          ELSE OutFile(1)
       IN  /\ output' = WriteAt(output, output_path,
                                [lines |-> written_lines(Docs[doc].df, Docs[doc].pre),
                                 doc |-> doc])
           /\ call' = [op |-> "write_csv_utf8_bom", writes |-> call.writes + 1,
                       clean |-> call.clean /\ handle_duplicates,
                       handle_duplicates |-> handle_duplicates, path |-> output_path]
    /\ UNCHANGED fsVars
    /\ UNCHANGED csvVars

\* read_csv_with_detection(p) gives one of its results
ReadCall(p) ==
    /\ p \in DOMAIN output
    /\ \E r \in read_csv_with_detection(output[p].lines) :
          call' = [op |-> "read_csv_with_detection", writes |-> call.writes,
                   clean |-> call.clean, path |-> p, got |-> r]
    /\ UNCHANGED output
    /\ UNCHANGED fsVars
    /\ UNCHANGED csvVars

NextCsv ==
    \/ \E doc \in DOMAIN Docs, d \in BOOLEAN : WriteCall(doc, d)
    \/ \E p \in DOMAIN output : ReadCall(p)

SpecCsv == InitCsv /\ [][NextCsv]_vars


\* the last call was a read, of these lines
Reading == call.op = "read_csv_with_detection"
ReadLines == output[call.path].lines

\* the line holds every required column under one of its names, written out
NamesAll(line) ==
    /\ Contains(line, Riyoubi)
    /\ Contains(line, Tenmei)
    /\ Contains(line, Kingaku)
    /\ Contains(line, KamokuNo) \/ Contains(line, Bikou) \/ Contains(line, Kamoku)

\* the file read was written by write_csv_utf8_bom, with these arguments
ReadBack == Reading /\ output[call.path].doc # 0
WrittenDoc == Docs[output[call.path].doc]

\* the read returned the pre-header rows and the table that were written
SameAsWritten ==
    /\ call.got.raised = "none"
    /\ call.got.pre = WrittenDoc.pre
    /\ call.got.df = WrittenDoc.df

DupWrite == call'.writes = call.writes + 1 /\ call'.handle_duplicates

\* C22: with handle_duplicates a write replaces no file: it writes to out.csv if
\* that path is free and else to the first free of out_2.csv, out_3.csv, ..., and
\* returns the path it wrote; k such writes into an empty Output/ leave exactly
\* out.csv, out_2.csv, ..., out_k.csv
C22_NeverOverwrites ==
    /\ [][DupWrite =>
            /\ call'.path \notin DOMAIN output
            /\ DOMAIN output' = DOMAIN output \cup {call'.path}
            /\ \A p \in DOMAIN output : output'[p] = output[p]
            /\ call'.path.stem = OutStem /\ call'.path.ext = "csv"
            /\ OutFile(1) \notin DOMAIN output => call'.path.n = 1
            /\ OutFile(1) \in DOMAIN output =>
                  /\ call'.path.n >= 2
                  /\ \A c \in 2..(call'.path.n - 1) : OutFile(c) \in DOMAIN output]_vars
    /\ [](call.clean => DOMAIN output = {OutFile(n) : n \in 1..call.writes})

\* three writes with handle_duplicates into an empty Output/ have left three files
C22_Witness ==
    /\ call.clean
    /\ call.writes = MaxWrites
    /\ call.op = "write_csv_utf8_bom"
    /\ call.path = OutFile(MaxWrites)
    /\ DOMAIN output = {OutFile(n) : n \in 1..MaxWrites}

====
